---- MODULE Spec2Model ----
(***************************************************************************)
(* Model of src/src/App.js: the place-discovery pipeline of the Smart      *)
(* Places component (mood selection, geolocation, Overpass fetch,          *)
(* normalization of the raw elements, price/rating filter).                *)
(*                                                                         *)
(* Conventions.  A JavaScript string that is undefined or '' is the empty  *)
(* string "" (the code only tests such values for truthiness or equality). *)
(* A number that is undefined is Absent.  Ratings and rating thresholds    *)
(* are in tenths (3.5 is 35).  The haversine distance, the review count,   *)
(* the address and the contact fields of a place are not modelled: no      *)
(* modelled condition reads them.                                          *)
(***************************************************************************)
EXTENDS Integers, Sequences, FiniteSets

VARIABLES
    selectedMood,   \* useState('')
    places,         \* useState([])       the current result set
    loading,        \* useState(false)
    error,          \* useState('')
    userLocation,   \* useState(null)
    sortBy,         \* useState('distance')
    priceFilter,    \* useState([1, 2, 3, 4])
    ratingFilter,   \* useState(0)
    searchRadius,   \* useState(2000)
    calls,          \* the invocations of searchPlacesOverpass, in issue order
    elements,       \* data.elements of the normalization taken alone
    hour,           \* new Date().getHours() of that normalization
    processedPlaces,\* its result
    phase           \* "idle" | "input" | "done": position of that normalization

vars == <<selectedMood, places, loading, error, userLocation, sortBy,
          priceFilter, ratingFilter, searchRadius, calls,
          elements, hour, processedPlaces, phase>>

appVars == <<selectedMood, places, loading, error, userLocation, sortBy,
             priceFilter, ratingFilter, searchRadius, calls>>

unitVars == <<elements, hour, processedPlaces, phase>>

-----------------------------------------------------------------------------
(* Bounds of the model.                                                    *)

MaxQueries == 2     \* mood selections issued in one behaviour
MaxElements == 2    \* length of data.elements in the normalization taken alone
MaxPlaces == 2      \* length of the result set the filter is applied to

-----------------------------------------------------------------------------
(* Values.                                                                 *)

Absent == -1000                     \* an undefined number
NoLocation == [lat |-> Absent, lng |-> Absent]      \* userLocation === null
NoCenter == [lat |-> Absent, lon |-> Absent]        \* element.center undefined
NoRequest == [tags |-> <<>>, radius |-> 0, lat |-> Absent, lng |-> Absent]
Null == [null |-> TRUE]             \* the null a rejected element maps to

MOOD_PRESETS ==
    [work      |-> <<"cafe", "coworking_space", "library">>,
     date      |-> <<"restaurant", "cafe", "bar">>,
     quickBite |-> <<"fast_food", "restaurant", "cafe">>,
     budget    |-> <<"fast_food", "cafe", "restaurant">>]

MoodKeys == DOMAIN MOOD_PRESETS

expensiveCuisines == {"french", "japanese", "italian", "sushi"}

GeoUnsupportedMsg == "Geolocation not supported"
GeoDeniedMsg == "Please enable location access to find nearby places"
FetchFailedMsg == "Failed to fetch places data"
NoPlacesMsg == "No places found nearby. Try increasing the search radius or selecting a different mood."
FallbackMsg == "Failed to fetch places. Please try again."
\* messages of errors thrown by the runtime, not by the code
UndefinedTagsMsg == "Cannot read properties of undefined (reading 'tags')"
UndefinedFilterMsg == "Cannot read properties of undefined (reading 'filter')"
JsonSyntaxMsg == "Unexpected token < in JSON at position 0"
NetworkMsg == "Failed to fetch"

-----------------------------------------------------------------------------
(* JavaScript truthiness and || on numbers.                                *)

Truthy(n) == n # Absent /\ n # 0

Or(a, b) == IF Truthy(a) THEN a ELSE b

-----------------------------------------------------------------------------
(* The derivations inside processedPlaces' map callback.                   *)

\* priceLevel with the fast_food rule applied after the fine_dining rule
priceLevel_fastFoodLast(amenity, cuisine) ==
    LET p1 == IF cuisine = "fine_dining" THEN 4 ELSE 2
        p2 == IF amenity = "fast_food" THEN 1 ELSE p1
    IN  IF amenity = "restaurant" /\ cuisine # ""
        THEN (IF cuisine \in expensiveCuisines THEN 3 ELSE 2)
        ELSE p2

priceLevel(amenity, cuisine) ==
    LET p0 == 2
        p1 == IF amenity = "fast_food" THEN 1 ELSE p0
        p2 == IF cuisine = "fine_dining" THEN 4 ELSE p1
    IN  IF amenity = "restaurant" /\ cuisine # ""
        THEN (IF cuisine \in expensiveCuisines THEN 3 ELSE 2)
        ELSE p2

openNow(amenity, h) ==
    IF amenity = "cafe" THEN h >= 7 /\ h < 22
    ELSE IF amenity = "restaurant" THEN (h >= 11 /\ h < 15) \/ (h >= 17 /\ h < 23)
    ELSE IF amenity = "bar" THEN h >= 16 /\ h < 2
    ELSE TRUE

\* the map callback: one element that passed the name filter, with the
\* rating drawn for it
toPlace(element, rating, h) ==
    LET lat == Or(element.lat, element.center.lat)
        lon == Or(element.lon, element.center.lon)
    IN  IF ~Truthy(lat) \/ ~Truthy(lon) THEN Null
        ELSE [id |-> element.id,
              name |-> element.tags.name,
              rating |-> rating,
              priceLevel |-> priceLevel(element.tags.amenity, element.tags.cuisine),
              openNow |-> openNow(element.tags.amenity, h),
              location |-> [lat |-> lat, lng |-> lon],
              amenity |-> element.tags.amenity,
              cuisine |-> IF element.tags.cuisine # "" THEN element.tags.cuisine
                          ELSE "Various"]

hasName(element) == element.tags.name # ""

\* data.elements.filter(...).map(...).filter(place => place !== null);
\* ratings[i] is the rating drawn for the i-th element that has a name
normalize(elems, ratings, h) ==
    LET named == SelectSeq(elems, hasName)
        mapped == [i \in 1..Len(named) |-> toPlace(named[i], ratings[i], h)]
    IN  SelectSeq(mapped, LAMBDA place : place # Null)

-----------------------------------------------------------------------------
(* The filter applied on every render.                                     *)

includes(array, x) == \E i \in 1..Len(array) : array[i] = x

\* keepPlace with the rating compared by <= instead of <
keepPlace_strict(place) ==
    IF ~includes(priceFilter, place.priceLevel) THEN FALSE
    ELSE IF place.rating <= ratingFilter THEN FALSE
    ELSE TRUE

keepPlace(place) ==
    IF ~includes(priceFilter, place.priceLevel) THEN FALSE
    ELSE IF place.rating < ratingFilter THEN FALSE
    ELSE TRUE

filteredPlaces == SelectSeq(places, keepPlace)

-----------------------------------------------------------------------------
(* searchPlacesOverpass, one action per stretch between two awaits.  A     *)
(* call is [mood, radius, pc, request, received, path, wrotePlaces,        *)
(* wroteError, overlapped]: mood and radius are the argument and the       *)
(* searchRadius of the render whose closure runs; pc is the await the call *)
(* is suspended at; request is the POST it issued; received, path,         *)
(* wrotePlaces, wroteError and overlapped record what the call saw and     *)
(* what it last set (history, never read by the code).                     *)

InFlight(q) == calls[q].pc # "done"

newCall(mood) ==
    [mood |-> mood, radius |-> searchRadius,
     pc |-> "awaitLocation", request |-> NoRequest,
     received |-> <<>>, path |-> "pending",
     wrotePlaces |-> <<>>, wroteError |-> "",
     overlapped |-> \E q \in 1..Len(calls) : InFlight(q)]

\* searchPlacesOverpass without setPlaces([])
searchPlacesOverpass_noReset(mood) ==
    /\ Len(calls) < MaxQueries
    /\ loading' = TRUE
    /\ error' = ""
    /\ places' = places
    /\ calls' = Append(calls, newCall(mood))

\* lines 75-81: up to the await of getUserLocation()
searchPlacesOverpass(mood) ==
    /\ Len(calls) < MaxQueries
    /\ loading' = TRUE
    /\ error' = ""
    /\ places' = <<>>
    /\ calls' = Append(calls, newCall(mood))

handleMoodSelect(mood) ==
    /\ selectedMood' = mood
    /\ searchPlacesOverpass(mood)
    /\ UNCHANGED <<userLocation, sortBy, priceFilter, ratingFilter, searchRadius>>
    /\ UNCHANGED unitVars

\* the mood button: rendered for the keys of MOOD_PRESETS, disabled={loading}
MoodButtonClick(mood) ==
    /\ mood \in MoodKeys
    /\ ~loading
    /\ handleMoodSelect(mood)

\* Catch without the finally block
Catch_noFinally(q, message, why) ==
    /\ error' = IF message # "" THEN message ELSE FallbackMsg
    /\ loading' = loading
    /\ calls' = [calls EXCEPT ![q].pc = "done", ![q].path = why,
                              ![q].wroteError =
                                  IF message # "" THEN message ELSE FallbackMsg]
    /\ UNCHANGED places

\* catch (err) { setError(err.message || ...) } finally { setLoading(false) }
Catch(q, message, why) ==
    /\ error' = IF message # "" THEN message ELSE FallbackMsg
    /\ loading' = FALSE
    /\ calls' = [calls EXCEPT ![q].pc = "done", ![q].path = why,
                              ![q].wroteError =
                                  IF message # "" THEN message ELSE FallbackMsg]
    /\ UNCHANGED places

\* LocationResolve with the tags of an unregistered mood defaulting to none
LocationResolve_fetchAnyway(q, location) ==
    /\ q \in 1..Len(calls)
    /\ calls[q].pc = "awaitLocation"
    /\ userLocation' = location
    /\ calls' = [calls EXCEPT ![q].pc = "awaitFetch",
                    ![q].request = [tags |-> IF calls[q].mood \in MoodKeys
                                             THEN MOOD_PRESETS[calls[q].mood]
                                             ELSE <<>>,
                                    radius |-> calls[q].radius,
                                    lat |-> location.lat,
                                    lng |-> location.lng]]
    /\ UNCHANGED <<places, loading, error>>
    /\ UNCHANGED <<selectedMood, sortBy, priceFilter, ratingFilter, searchRadius>>
    /\ UNCHANGED unitVars

\* getUserLocation() resolved: lines 82-110, up to the await of fetch()
LocationResolve(q, location) ==
    /\ q \in 1..Len(calls)
    /\ calls[q].pc = "awaitLocation"
    /\ userLocation' = location
    /\ IF calls[q].mood \notin MoodKeys
       THEN Catch(q, UndefinedTagsMsg, "unknownMood")
       ELSE /\ calls' = [calls EXCEPT ![q].pc = "awaitFetch",
                           ![q].request = [tags |-> MOOD_PRESETS[calls[q].mood],
                                           radius |-> calls[q].radius,
                                           lat |-> location.lat,
                                           lng |-> location.lng]]
            /\ UNCHANGED <<places, loading, error>>
    /\ UNCHANGED <<selectedMood, sortBy, priceFilter, ratingFilter, searchRadius>>
    /\ UNCHANGED unitVars

\* getUserLocation() rejected (lines 45-47 or 57-59)
LocationReject(q, message) ==
    /\ q \in 1..Len(calls)
    /\ calls[q].pc = "awaitLocation"
    /\ Catch(q, message, "locationFailed")
    /\ UNCHANGED <<selectedMood, userLocation, sortBy, priceFilter, ratingFilter,
                   searchRadius>>
    /\ UNCHANGED unitVars

\* fetch() resolved: lines 112-116, up to the await of response.json()
FetchResolve(q, ok) ==
    /\ q \in 1..Len(calls)
    /\ calls[q].pc = "awaitFetch"
    /\ IF ~ok
       THEN Catch(q, FetchFailedMsg, "badStatus")
       ELSE /\ calls' = [calls EXCEPT ![q].pc = "awaitJson"]
            /\ UNCHANGED <<places, loading, error>>
    /\ UNCHANGED <<selectedMood, userLocation, sortBy, priceFilter, ratingFilter,
                   searchRadius>>
    /\ UNCHANGED unitVars

\* fetch() rejected
FetchReject(q, message) ==
    /\ q \in 1..Len(calls)
    /\ calls[q].pc = "awaitFetch"
    /\ Catch(q, message, "networkError")
    /\ UNCHANGED <<selectedMood, userLocation, sortBy, priceFilter, ratingFilter,
                   searchRadius>>
    /\ UNCHANGED unitVars

\* Succeed without the message for an empty result
Succeed_noEmptyMessage(q, elems, result) ==
    /\ places' = result
    /\ error' = error
    /\ loading' = FALSE
    /\ calls' = [calls EXCEPT ![q].pc = "done", ![q].path = "ok",
                              ![q].received = elems,
                              ![q].wrotePlaces = result,
                              ![q].wroteError = ""]

\* lines 170-174 and the finally
Succeed(q, elems, result) ==
    /\ places' = result
    /\ error' = IF Len(result) = 0 THEN NoPlacesMsg ELSE error
    /\ loading' = FALSE
    /\ calls' = [calls EXCEPT ![q].pc = "done", ![q].path = "ok",
                              ![q].received = elems,
                              ![q].wrotePlaces = result,
                              ![q].wroteError =
                                  IF Len(result) = 0 THEN NoPlacesMsg ELSE ""]

\* response.json() resolved with data: lines 118-180.  hasElements is
\* whether data.elements is an array.
JsonResolve(q, hasElements, elems, ratings, h) ==
    /\ q \in 1..Len(calls)
    /\ calls[q].pc = "awaitJson"
    /\ IF ~hasElements
       THEN Catch(q, UndefinedFilterMsg, "malformedBody")
       ELSE Succeed(q, elems, normalize(elems, ratings, h))
    /\ UNCHANGED <<selectedMood, userLocation, sortBy, priceFilter, ratingFilter,
                   searchRadius>>
    /\ UNCHANGED unitVars

\* response.json() rejected: the body is not JSON
JsonReject(q) ==
    /\ q \in 1..Len(calls)
    /\ calls[q].pc = "awaitJson"
    /\ Catch(q, JsonSyntaxMsg, "malformedBody")
    /\ UNCHANGED <<selectedMood, userLocation, sortBy, priceFilter, ratingFilter,
                   searchRadius>>
    /\ UNCHANGED unitVars

-----------------------------------------------------------------------------
(* The controls of the page.                                               *)

\* the radius slider (lines 255-263): min 500, max 5000, step 500
SetSearchRadius(radius) ==
    /\ radius # searchRadius
    /\ searchRadius' = radius
    /\ UNCHANGED <<selectedMood, places, loading, error, userLocation, sortBy,
                   priceFilter, ratingFilter, calls>>
    /\ UNCHANGED unitVars

\* the result controls are rendered when !loading && places.length > 0
ControlsShown == ~loading /\ Len(places) > 0

\* a price button (lines 320-329)
TogglePrice(level) ==
    /\ ControlsShown
    /\ priceFilter' = IF includes(priceFilter, level)
                      THEN SelectSeq(priceFilter, LAMBDA l : l # level)
                      ELSE Append(priceFilter, level)
    /\ UNCHANGED <<selectedMood, places, loading, error, userLocation, sortBy,
                   ratingFilter, searchRadius, calls>>
    /\ UNCHANGED unitVars

\* the minimum-rating slider (lines 346-354): min 0, max 5, step 0.5
SetRatingFilter(rating) ==
    /\ ControlsShown
    /\ rating # ratingFilter
    /\ ratingFilter' = rating
    /\ UNCHANGED <<selectedMood, places, loading, error, userLocation, sortBy,
                   priceFilter, searchRadius, calls>>
    /\ UNCHANGED unitVars

\* the sort select (lines 296-305)
SetSortBy(key) ==
    /\ ControlsShown
    /\ key # sortBy
    /\ sortBy' = key
    /\ UNCHANGED <<selectedMood, places, loading, error, userLocation,
                   priceFilter, ratingFilter, searchRadius, calls>>
    /\ UNCHANGED unitVars

-----------------------------------------------------------------------------
(* Inputs.                                                                 *)

Origins == {[lat |-> 40, lng |-> -75]}
Radii == {2000, 5000}
Ratings == {35, 50}                 \* parseFloat((3.5 + U * 1.5).toFixed(1))
Hours == 0..23
SampleHours == {9}
SortKeys == {"distance", "rating", "price_low", "price_high"}
PriceLevels == 1..4
RatingSteps == {0, 40, 50}
LocationErrors == {GeoUnsupportedMsg, GeoDeniedMsg}
NetworkErrors == {NetworkMsg, ""}
CallerMoods == MoodKeys \cup {"vacation"}

TagAmenities == {"fast_food", "restaurant", "cafe", "bar", "library"}
TagCuisines == {"", "fine_dining", "french", "pizza"}

Tags(name, amenity, cuisine) ==
    [name |-> name, amenity |-> amenity, cuisine |-> cuisine]

Element(id, tags, lat, lon, center) ==
    [id |-> id, tags |-> tags, lat |-> lat, lon |-> lon, center |-> center]

BlueCafe == Element(1, Tags("Blue Cafe", "cafe", ""), 40, -75, NoCenter)
Nameless == Element(2, Tags("", "cafe", ""), 40, -75, NoCenter)
Placeless == Element(3, Tags("Mole", "restaurant", "french"), Absent, Absent, NoCenter)

SampleBodies == {<<>>, <<BlueCafe, Nameless>>, <<Nameless, Placeless>>}

RatingsFor(elems) == [1..Len(SelectSeq(elems, hasName)) -> Ratings]

\* sequences over S of length lo..hi, the i-th element carrying id i
Numbered(S, lo, hi) ==
    UNION {{[i \in 1..n |-> [f[i] EXCEPT !.id = i]] : f \in [1..n -> S]} : n \in lo..hi}

-----------------------------------------------------------------------------
(* The page: the mood buttons and the query they start.                    *)

AppInit ==
    /\ selectedMood = ""
    /\ places = <<>>
    /\ loading = FALSE
    /\ error = ""
    /\ userLocation = NoLocation
    /\ sortBy = "distance"
    /\ priceFilter = <<1, 2, 3, 4>>
    /\ ratingFilter = 0
    /\ searchRadius = 2000
    /\ calls = <<>>

UnitIdle ==
    /\ elements = <<>>
    /\ hour = 0
    /\ processedPlaces = <<>>
    /\ phase = "idle"

Init == AppInit /\ UnitIdle

Resolve ==
    \/ \E q \in 1..MaxQueries, location \in Origins : LocationResolve(q, location)
    \/ \E q \in 1..MaxQueries, message \in LocationErrors : LocationReject(q, message)
    \/ \E q \in 1..MaxQueries, ok \in BOOLEAN : FetchResolve(q, ok)
    \/ \E q \in 1..MaxQueries, message \in NetworkErrors : FetchReject(q, message)
    \/ \E q \in 1..MaxQueries, hasElements \in BOOLEAN, elems \in SampleBodies,
          h \in SampleHours :
          \E ratings \in RatingsFor(elems) :
             JsonResolve(q, hasElements, IF hasElements THEN elems ELSE <<>>, ratings, h)
    \/ \E q \in 1..MaxQueries : JsonReject(q)

Next ==
    \/ \E mood \in MoodKeys : MoodButtonClick(mood)
    \/ Resolve

Spec == Init /\ [][Next]_vars

\* every pending location request, fetch and body read resolves or rejects
FairSpec == Spec /\ WF_vars(Resolve)

-----------------------------------------------------------------------------
(* The pipeline under any caller: searchPlacesOverpass invoked with any    *)
(* key, also while an earlier invocation is suspended.                     *)

Invoke(mood) == handleMoodSelect(mood)

NextPipeline ==
    \/ \E mood \in CallerMoods : Invoke(mood)
    \/ Resolve

SpecPipeline == Init /\ [][NextPipeline]_vars

-----------------------------------------------------------------------------
(* The normalization alone, on drawn data.elements.                        *)

Normalize(ratings) ==
    /\ phase = "input"
    /\ processedPlaces' = normalize(elements, ratings, hour)
    /\ phase' = "done"
    /\ UNCHANGED <<elements, hour>>
    /\ UNCHANGED appVars

NextNormalize == \E ratings \in RatingsFor(elements) : Normalize(ratings)

\* two named, located elements with any category and cuisine, at any hour
DeriveInit ==
    /\ AppInit
    /\ \E a1 \in TagAmenities, c1 \in TagCuisines,
          a2 \in TagAmenities, c2 \in TagCuisines :
          elements = <<Element(1, Tags("Blue Cafe", a1, c1), 40, -75, NoCenter),
                       Element(2, Tags("Mole", a2, c2), Absent, Absent,
                               [lat |-> 41, lon |-> -74])>>
    /\ hour \in Hours
    /\ processedPlaces = <<>>
    /\ phase = "input"

SpecDerive == DeriveInit /\ [][NextNormalize]_vars

Lats == {Absent, 0, 40}
Lons == {Absent, 0, -75}
Centers == {NoCenter, [lat |-> 41, lon |-> -74]}
Names == {"", "Blue Cafe"}

CoordElements ==
    {Element(0, Tags(name, "cafe", ""), lat, lon, center) :
        name \in Names, lat \in Lats, lon \in Lons, center \in Centers}

\* up to MaxElements elements with any name and coordinate shape
NormalizeInit ==
    /\ AppInit
    /\ elements \in Numbered(CoordElements, 0, MaxElements)
    /\ hour \in SampleHours
    /\ processedPlaces = <<>>
    /\ phase = "input"

SpecNormalize == NormalizeInit /\ [][NextNormalize]_vars

-----------------------------------------------------------------------------
(* The controls of the page alone, on a drawn result set.                  *)

PricedElements ==
    {Element(0, Tags("Blue Cafe", "fast_food", ""), 40, -75, NoCenter),
     Element(0, Tags("Blue Cafe", "cafe", ""), 40, -75, NoCenter),
     Element(0, Tags("Blue Cafe", "restaurant", "french"), 40, -75, NoCenter),
     Element(0, Tags("Blue Cafe", "bar", "fine_dining"), 40, -75, NoCenter)}

\* the result sets of 1..MaxPlaces places a query can leave
ResultSets ==
    UNION {{normalize(elems, ratings, 12) : ratings \in RatingsFor(elems)} :
              elems \in Numbered(PricedElements, 1, MaxPlaces)}

FilterInit ==
    /\ selectedMood = "work"
    /\ places \in ResultSets
    /\ loading = FALSE
    /\ error = ""
    /\ userLocation \in Origins
    /\ sortBy = "distance"
    /\ priceFilter = <<1, 2, 3, 4>>
    /\ ratingFilter = 0
    /\ searchRadius = 2000
    /\ calls = <<>>
    /\ UnitIdle

NextFilter ==
    \/ \E level \in PriceLevels : TogglePrice(level)
    \/ \E rating \in RatingSteps : SetRatingFilter(rating)
    \/ \E key \in SortKeys : SetSortBy(key)
    \/ \E radius \in Radii : SetSearchRadius(radius)

SpecFilter == FilterInit /\ [][NextFilter]_vars

-----------------------------------------------------------------------------
(* Properties.                                                             *)

Range(seq) == {seq[i] : i \in 1..Len(seq)}
Ids(seq) == [i \in 1..Len(seq) |-> seq[i].id]
Cur == Len(calls)
AllDone == \A q \in 1..Len(calls) : ~InFlight(q)
TransportPaths == {"badStatus", "networkError", "malformedBody"}

\* an element has a resolvable coordinate: direct lat/lon, else the center
Resolvable(element) ==
    \/ element.lat # Absent /\ element.lon # Absent
    \/ element.center # NoCenter

Usable(element) == hasName(element) /\ Resolvable(element)

QuerySucceeded ==
    /\ error = ""
    /\ calls[Cur].path = "ok"
    /\ places = calls[Cur].wrotePlaces
    /\ Ids(places) = Ids(SelectSeq(calls[Cur].received, Usable))

QueryFailed == error # ""

LifecycleInv ==
    Len(calls) > 0 =>
        /\ InFlight(Cur) => loading /\ error = ""
        /\ ~InFlight(Cur) =>
              /\ ~loading
              /\ QuerySucceeded # QueryFailed
              /\ calls[Cur].path # "ok" => QueryFailed

QueryLifecycle == []LifecycleInv /\ (loading ~> ~loading)

QueryLifecycleWitness ==
    /\ Len(calls) = 2
    /\ calls[1].path = "locationFailed"
    /\ calls[2].path = "ok"
    /\ ~loading
    /\ error = ""
    /\ Len(places) = 1

UnknownMoodNoFetch ==
    \A q \in 1..Len(calls) :
        calls[q].mood \notin MoodKeys =>
            /\ calls[q].request = NoRequest
            /\ calls[q].pc \in {"awaitLocation", "done"}
            /\ calls[q].pc = "done" =>
                  /\ calls[q].path \in {"unknownMood", "locationFailed"}
                  /\ calls[q].wroteError # ""
                  /\ calls[q].wrotePlaces = <<>>
                  /\ Len(calls) = 1 => error = calls[q].wroteError /\ ~loading

UnknownMoodWitness ==
    \E q \in 1..Len(calls) :
        /\ calls[q].mood = "vacation"
        /\ calls[q].path = "unknownMood"
        /\ userLocation \in Origins

Derived == phase = "done" /\ Len(processedPlaces) = Len(elements)

\* the tier of every place is in 1..4 and places with the same category and
\* cuisine have the same tier
TierOfTagsOnly ==
    \A i, j \in 1..Len(processedPlaces) :
        /\ processedPlaces[i].priceLevel \in 1..4
        /\ elements[i].tags = [elements[j].tags EXCEPT !.name = elements[i].tags.name]
              => processedPlaces[i].priceLevel = processedPlaces[j].priceLevel

TierOfFastFoodFineDining(tier) ==
    \A i \in 1..Len(processedPlaces) :
        (elements[i].tags.amenity = "fast_food" /\ elements[i].tags.cuisine = "fine_dining")
            => processedPlaces[i].priceLevel = tier

\* C5 as stated: the price tier depends only on category and cuisine, is in
\* 1..4, and is 1 for category fast_food with cuisine fine_dining.
PriceTierFastFoodPrecedence ==
    Derived => TierOfTagsOnly /\ TierOfFastFoodFineDining(1)

\* C5 as amended: the price tier depends only on category and cuisine, is in
\* 1..4, and is 4 for category fast_food with cuisine fine_dining.
PriceTierFineDiningPrecedence ==
    Derived => TierOfTagsOnly /\ TierOfFastFoodFineDining(4)

PriceTierWitness ==
    /\ Derived
    /\ elements[1].tags.amenity = "fast_food"
    /\ elements[1].tags.cuisine = "fine_dining"
    /\ elements[2].tags.amenity = "fast_food"
    /\ elements[2].tags.cuisine = "fine_dining"
    /\ processedPlaces[1].rating # processedPlaces[2].rating
    /\ processedPlaces[1].priceLevel = 4

\* C6: a place of category restaurant with cuisine fine_dining has price
\* tier 4: the restaurant rule does not replace the tier the fine_dining
\* rule set.
RestaurantRuleKeepsFineDining ==
    Derived =>
        \A i \in 1..Len(processedPlaces) :
            (elements[i].tags.amenity = "restaurant"
                /\ elements[i].tags.cuisine = "fine_dining")
                => processedPlaces[i].priceLevel = 4

OpenAt(amenity, h) ==
    CASE amenity = "bar" -> h >= 16 \/ h < 2
      [] amenity = "cafe" -> 7 <= h /\ h < 22
      [] amenity = "restaurant" -> (11 <= h /\ h < 15) \/ (17 <= h /\ h < 23)
      [] OTHER -> TRUE

\* C7: at every hour 0..23 a bar is open exactly when h >= 16 or h < 2, a
\* cafe exactly when 7 <= h < 22, a restaurant exactly when 11 <= h < 15 or
\* 17 <= h < 23, and any other category always.
OpenHours ==
    Derived =>
        \A i \in 1..Len(processedPlaces) :
            processedPlaces[i].openNow = OpenAt(elements[i].tags.amenity, hour)

\* C8: normalization yields one place for each element that has a name and
\* a resolvable coordinate, in input order, and none for any other element,
\* latitude 0 and longitude 0 included.
NormalizeKeepsUsable ==
    phase = "done" => Ids(processedPlaces) = Ids(SelectSeq(elements, Usable))

Survives(place) ==
    /\ place.priceLevel \in Range(priceFilter)
    /\ place.rating >= ratingFilter

FilterKeepsExactly ==
    /\ \A place \in Range(places) : place \in Range(filteredPlaces) <=> Survives(place)
    /\ Range(filteredPlaces) \subseteq Range(places)
    /\ Len(filteredPlaces) = Cardinality(Range(filteredPlaces))

FilterStep ==
    \/ priceFilter' # priceFilter
    \/ ratingFilter' # ratingFilter
    \/ sortBy' # sortBy

\* C9: under every price-tier selection and minimum rating the filtered list
\* holds exactly the places of the result set whose tier is selected and
\* whose rating is at least the minimum; a change of the filters or of the
\* sort key leaves the result set as it is and starts no query.
FilterExact ==
    /\ []FilterKeepsExactly
    /\ [][FilterStep => /\ places' = places
                        /\ calls' = calls
                        /\ loading' = loading
                        /\ error' = error]_vars

FilterWitness ==
    /\ Len(places) = 2
    /\ Len(filteredPlaces) = 1
    /\ ratingFilter = 50
    /\ priceFilter = <<2, 3, 4, 1>>
    /\ sortBy = "rating"

\* C10: the result set is empty or the normalized output of the one latest
\* query; it is empty from the start of a query while that query is
\* loading, and empty after a query that ended in the error outcome.
ResultSetOfOneQuery ==
    /\ places # <<>> =>
          /\ Len(calls) > 0
          /\ calls[Cur].path = "ok"
          /\ places = calls[Cur].wrotePlaces
          /\ Ids(places) = Ids(SelectSeq(calls[Cur].received, Usable))
    /\ loading => places = <<>>
    /\ (Len(calls) > 0 /\ InFlight(Cur)) => places = <<>>
    /\ error # "" => places = <<>>

ResultSetWitness ==
    /\ Len(calls) = 2
    /\ calls[1].wrotePlaces # <<>>
    /\ calls[2].path = "badStatus"
    /\ places = <<>>
    /\ error = FetchFailedMsg

====
